---- MODULE Spec2Model ----
(***************************************************************************)
(* Model of src/main.py: fetch_user_details, a blocking HTTP GET of one    *)
(* user record with bounded retry and exponential backoff.                 *)
(*                                                                         *)
(* One call of fetch_user_details is modelled.  The transport              *)
(* (requests.get), the JSON decoder (Response.json) and the sleeper        *)
(* (time.sleep) are the environment: every attempt the transport answers   *)
(* with any outcome of TransportOutcomes, chosen nondeterministically.     *)
(* trace and sleeps record what the call did to the environment.           *)
(***************************************************************************)
EXTENDS Integers, Sequences, FiniteSets, TLC

(***************************************************************************)
(* Bounds of the model.                                                    *)
(***************************************************************************)
\* largest max_retries argument explored
MaxRetries == 2
\* largest initial_backoff argument explored, in units of the caller's choice
MaxInitialBackoff == 1

\* max_retries is an unchecked int: -1 stands for the negative values
RetryValues == {0 - 1} \cup (0 .. MaxRetries)
\* initial_backoff is a delay handed to time.sleep: non-negative
BackoffValues == 0 .. MaxInitialBackoff
\* no run of the code makes more transport calls than this; it only keeps
\* the state space finite should the loop fail to stop
MaxAttempts == MaxRetries + 2

(***************************************************************************)
(* Inputs: user_id.  A str is a sequence of one-character strings; any     *)
(* other Python value (None, 42) is the non-str value.                     *)
(***************************************************************************)
Whitespace == {" ", "\t"}

Str(chars) == [is_str |-> TRUE, chars |-> chars]
NonStr == [is_str |-> FALSE, chars |-> <<>>]

UserIds ==
    { NonStr,
      Str(<<>>),
      Str(<<" ">>),
      Str(<<"\t", " ">>),
      Str(<<"4", "2">>),
      Str(<<" ", "4", " ", "2", "\t">>) }

RECURSIVE LStrip(_)
LStrip(s) ==
    IF s # <<>> /\ Head(s) \in Whitespace THEN LStrip(Tail(s)) ELSE s

RECURSIVE RStrip(_)
RStrip(s) ==
    IF s # <<>> /\ s[Len(s)] \in Whitespace
    THEN RStrip(SubSeq(s, 1, Len(s) - 1))
    ELSE s

\* str.strip(): leading and trailing whitespace removed, inner kept
Strip(s) == RStrip(LStrip(s))

\* line 55, negated: isinstance(user_id, str) and user_id.strip()
IsValidUserIdNoStrip(u) == u.is_str /\ u.chars # <<>>
IsValidUserId(u) == u.is_str /\ Strip(u.chars) # <<>>

\* line 58
SafeUserId(u) == Strip(u.chars)

base_url == "https://api.example.com"

\* line 59: f"{base_url}/users/{safe_user_id}"
BuildUrl(base, safe) == <<base, "/users/">> \o safe

(***************************************************************************)
(* The transport's answers.                                                *)
(***************************************************************************)
TransientStatuses == {408, 429, 500, 502, 503, 504}

_is_transient_status_plus404(status_code) ==
    status_code \in TransientStatuses \cup {404}
_is_transient_status_no408(status_code) ==
    status_code \in TransientStatuses \ {408}
_is_transient_status(status_code) == status_code \in TransientStatuses

\* line 79
IsSuccessStatusOnly200(status_code) == status_code = 200
IsSuccessStatus(status_code) == 200 =< status_code /\ status_code < 300

\* status codes the transport may answer with
OtherStatuses == {100, 199, 300, 301, 400, 401, 403, 404, 410, 501, 599}
SuccessStatuses == {200, 299}

\* response bodies, and what Response.json() makes of each
Bodies == {"{\"id\":\"42\",\"name\":\"Ada\"}", "{}", "[1,2]", "42", "<html>", ""}

JsonParses(body) == body \in {"{\"id\":\"42\",\"name\":\"Ada\"}", "{}", "[1,2]", "42"}

JsonValue(body) ==
    CASE body = "{\"id\":\"42\",\"name\":\"Ada\"}" ->
             [type |-> "dict", repr |-> "id=42,name=Ada"]
      [] body = "{}" -> [type |-> "dict", repr |-> ""]
      [] body = "[1,2]" -> [type |-> "list", repr |-> "1,2"]
      [] body = "42" -> [type |-> "int", repr |-> "42"]
      [] OTHER -> [type |-> "undecodable", repr |-> body]

NoData == [type |-> "none", repr |-> ""]

\* line 95: isinstance(data, dict)
IsDictAny(data) == TRUE
IsDictOrList(data) == data.type \in {"dict", "list"}
IsDict(data) == data.type = "dict"

Response(status, body) ==
    [kind |-> "response", has_status |-> TRUE, status |-> status, body |-> body]
Raised(kind) ==
    [kind |-> kind, has_status |-> FALSE, status |-> 0, body |-> ""]
\* HTTPError whose .response carries a status code
RaisedHTTP(status) ==
    [kind |-> "HTTPError", has_status |-> TRUE, status |-> status, body |-> ""]

\* a body is read only from a 2xx response; the others carry the empty one
Responses ==
    { Response(s, b) : s \in SuccessStatuses, b \in Bodies }
    \cup { Response(s, "") : s \in TransientStatuses \cup OtherStatuses }
NetworkErrors == { Raised("ConnectionError"), Raised("Timeout") }
HTTPErrors == { Raised("HTTPError"), RaisedHTTP(404), RaisedHTTP(503) }
RequestExceptions == { Raised("RequestException") }

TransportOutcomes ==
    Responses \cup NetworkErrors \cup HTTPErrors \cup RequestExceptions

(***************************************************************************)
(* The retry policy.                                                       *)
(***************************************************************************)
\* lines 130, 156, 172, 197: attempt > max_retries
RetriesExhaustedEarly(att, retries) == att >= retries
RetriesExhaustedLate(att, retries) == att > retries + 1
RetriesExhausted(att, retries) == att > retries

\* line 65: attempt += 1
NextAttemptStuck(att) == att
NextAttempt(att) == att + 1

\* line 212: backoff *= 2
NextBackoffSame(b) == b
NextBackoffCapped(b) == IF b * 2 > 2 THEN 2 ELSE b * 2
NextBackoff(b) == b * 2

(***************************************************************************)
(* Exceptions: the type, the message (its text and the number formatted    *)
(* into it, if any) and __cause__ (raise ... from exc).                    *)
(***************************************************************************)
Exc(type, text, has_num, num, cause) ==
    [type |-> type, text |-> text, has_num |-> has_num, num |-> num,
     cause |-> cause]

NoExc == Exc("none", "", FALSE, 0, "none")

\* what one pass through the loop body decides
Return(data) == [next |-> "return", data |-> data, exc |-> NoExc]
Raise(exc) == [next |-> "raise", data |-> NoData, exc |-> exc]
Retry == [next |-> "retry", data |-> NoData, exc |-> NoExc]

(***************************************************************************)
(* The loop body's branches, lines 66-198.  att is attempt after line 65.  *)
(***************************************************************************)
\* lines 76-143: requests.get returned a response
HandleResponse(o, att, retries) ==
    IF IsSuccessStatus(o.status)
    THEN IF ~JsonParses(o.body)
         THEN Raise(Exc("PermanentAPIError",
                        "Invalid JSON received from user service",
                        FALSE, 0, "ValueError"))
         ELSE IF ~IsDict(JsonValue(o.body))
         THEN Raise(Exc("PermanentAPIError",
                        "Unexpected JSON structure from user service",
                        FALSE, 0, "none"))
         ELSE Return(JsonValue(o.body))
    ELSE IF _is_transient_status(o.status)
    THEN IF RetriesExhausted(att, retries)
         THEN Raise(Exc("TransientAPIError",
                        "Transient HTTP error after {max_retries} retries",
                        TRUE, retries, "none"))
         ELSE Retry
    ELSE Raise(Exc("PermanentAPIError", "Permanent HTTP error: {status_code}",
                   TRUE, o.status, "none"))

\* lines 145-157: except (ConnectionError, Timeout)
HandleNetworkErrorNoBudget(o, att, retries) == Retry
HandleNetworkError(o, att, retries) ==
    IF RetriesExhausted(att, retries)
    THEN Raise(Exc("TransientAPIError",
                   "Network error after {max_retries} retries",
                   TRUE, retries, o.kind))
    ELSE Retry

\* lines 159-184: except HTTPError
HandleHTTPErrorAlwaysTransient(o, att, retries) ==
    IF RetriesExhausted(att, retries)
    THEN Raise(Exc("TransientAPIError",
                   "Transient HTTP error after {max_retries} retries",
                   TRUE, retries, o.kind))
    ELSE Retry
HandleHTTPError(o, att, retries) ==
    IF o.has_status /\ _is_transient_status(o.status)
    THEN IF RetriesExhausted(att, retries)
         THEN Raise(Exc("TransientAPIError",
                        "Transient HTTP error after {max_retries} retries",
                        TRUE, retries, o.kind))
         ELSE Retry
    ELSE Raise(Exc("PermanentAPIError",
                   "Permanent HTTP error from user service",
                   FALSE, 0, o.kind))

\* lines 186-198: except RequestException
HandleRequestExceptionAsHTTPError(o, att, retries) ==
    HandleHTTPError(o, att, retries)
HandleRequestExceptionNoBudget(o, att, retries) == Retry
HandleRequestException(o, att, retries) ==
    IF RetriesExhausted(att, retries)
    THEN Raise(Exc("TransientAPIError",
                   "Request error after {max_retries} retries",
                   TRUE, retries, o.kind))
    ELSE Retry

(***************************************************************************)
(* State of one call.                                                      *)
(***************************************************************************)
VARIABLES
    user_id,          \* argument
    max_retries,      \* argument
    initial_backoff,  \* argument
    pc,               \* "start", "attempt" (line 64), "sleep" (line 201), "done"
    safe_user_id,     \* local, line 58
    url,              \* local, line 59
    attempt,          \* local, lines 61 and 65
    backoff,          \* local, lines 62 and 212
    result,           \* the value returned at line 117
    exc,              \* the exception that left the call
    trace,            \* the transport's answers, one per requests.get call
    sleeps,           \* the arguments of the time.sleep calls, in order
    cancel_requested, \* the caller has asked to stop, or its deadline passed
    conc              \* two calls running side by side (ConcSpec only)

vars == <<user_id, max_retries, initial_backoff, pc, safe_user_id, url,
          attempt, backoff, result, exc, trace, sleeps, cancel_requested,
          conc>>

\* what lies outside the one call: fetch_user_details takes no cancellation
\* token and no deadline (lines 32-39) and reads no state of another call
env == <<cancel_requested, conc>>

\* conc while a single call is studied
NoConc == <<>>

args == <<user_id, max_retries, initial_backoff>>

Init ==
    /\ user_id \in UserIds
    /\ max_retries \in RetryValues
    /\ initial_backoff \in BackoffValues
    /\ pc = "start"
    /\ safe_user_id = <<>>
    /\ url = <<>>
    /\ attempt = 0
    /\ backoff = 0
    /\ result = NoData
    /\ exc = NoExc
    /\ trace = <<>>
    /\ sleeps = <<>>
    /\ cancel_requested = FALSE
    /\ conc = NoConc

\* lines 54-62: validation and the locals set before the loop
Validate ==
    /\ pc = "start"
    /\ IF ~IsValidUserId(user_id)
       THEN /\ exc' = Exc("ValueError", "user_id must be a non-empty string",
                          FALSE, 0, "none")
            /\ pc' = "done"
            /\ UNCHANGED <<safe_user_id, url, attempt, backoff>>
       ELSE /\ safe_user_id' = SafeUserId(user_id)
            /\ url' = BuildUrl(base_url, SafeUserId(user_id))
            /\ attempt' = 0
            /\ backoff' = initial_backoff
            /\ pc' = "attempt"
            /\ exc' = exc
    /\ UNCHANGED <<args, result, trace, sleeps, env>>

\* lines 64-198: one pass of the loop body, the transport answering o and
\* the branch taken deciding d
Pass(o, d) ==
    /\ pc = "attempt"
    /\ Len(trace) < MaxAttempts
    /\ attempt' = NextAttempt(attempt)
    /\ trace' = Append(trace, o)
    /\ pc' = IF d.next = "retry" THEN "sleep" ELSE "done"
    /\ result' = d.data
    /\ exc' = d.exc
    /\ UNCHANGED <<args, safe_user_id, url, backoff, sleeps, env>>

AttemptResponse ==
    \E o \in Responses :
        Pass(o, HandleResponse(o, NextAttempt(attempt), max_retries))

AttemptNetworkError ==
    \E o \in NetworkErrors :
        Pass(o, HandleNetworkError(o, NextAttempt(attempt), max_retries))

AttemptHTTPError ==
    \E o \in HTTPErrors :
        Pass(o, HandleHTTPError(o, NextAttempt(attempt), max_retries))

AttemptRequestException ==
    \E o \in RequestExceptions :
        Pass(o, HandleRequestException(o, NextAttempt(attempt), max_retries))

\* lines 200-212: sleep for the current backoff, then double it
BackoffSleep ==
    /\ pc = "sleep"
    /\ sleeps' = Append(sleeps, backoff)
    /\ backoff' = NextBackoff(backoff)
    /\ pc' = "attempt"
    /\ UNCHANGED <<args, safe_user_id, url, attempt, result, exc, trace, env>>

Next ==
    \/ Validate
    \/ AttemptResponse
    \/ AttemptNetworkError
    \/ AttemptHTTPError
    \/ AttemptRequestException
    \/ BackoffSleep

Spec == Init /\ [][Next]_vars

\* every transport call and every sleep returns, and the interpreter runs on
FairSpec == Spec /\ WF_vars(Next)

(***************************************************************************)
(* The caller's cancellation.  While the call runs the caller may ask it   *)
(* to stop (or its overall deadline may pass).  No statement of            *)
(* fetch_user_details reads that: the only time limit is the per-attempt   *)
(* timeout handed to requests.get (line 74), and time.sleep(sleep_seconds) *)
(* (line 211) runs to its end.                                             *)
(***************************************************************************)
RequestCancel ==
    /\ pc # "done"
    /\ ~cancel_requested
    /\ cancel_requested' = TRUE
    /\ UNCHANGED <<args, pc, safe_user_id, url, attempt, backoff, result, exc,
                   trace, sleeps, conc>>

CancelNext ==
    \/ Next
    \/ RequestCancel

CancelSpec == Init /\ [][CancelNext]_vars

(***************************************************************************)
(* Vocabulary of the properties.                                           *)
(***************************************************************************)
Done == pc = "done"
Returned == Done /\ exc.type = "none"
RaisedType(t) == Done /\ exc.type = t
Calls == Len(trace)
Last == trace[Len(trace)]

TypeOK ==
    /\ pc \in {"start", "attempt", "sleep", "done"}
    /\ attempt \in 0 .. MaxAttempts
    /\ Len(trace) = attempt
    /\ \A i \in 1 .. Len(trace) : trace[i] \in TransportOutcomes
    /\ exc.type \in {"none", "ValueError", "PermanentAPIError",
                     "TransientAPIError"}

\* the bound MaxAttempts never stops the loop
CapNotBinding == pc = "attempt" => Len(trace) < MaxAttempts

(***************************************************************************)
(* What the claims speak of, stated without the model's own operators.     *)
(***************************************************************************)
\* an identifier that is a string, empty or of whitespace only
BlankId(u) ==
    u.is_str /\ \A i \in 1 .. Len(u.chars) : u.chars[i] \in {" ", "\t"}

Is2xx(o) == o.kind = "response" /\ o.status >= 200 /\ o.status < 300
IsTransientResponse(o) ==
    o.kind = "response" /\ o.status \in {408, 429, 500, 502, 503, 504}
IsPermanentResponse(o) ==
    o.kind = "response" /\ ~Is2xx(o) /\ ~IsTransientResponse(o)
IsObjectBody(o) == JsonParses(o.body) /\ JsonValue(o.body).type = "dict"
IsNetworkError(o) ==
    o.kind \in {"ConnectionError", "Timeout", "RequestException"}

\* initial_backoff, 2*initial_backoff, 4*initial_backoff, ... (n of them)
Doubling(n) == [i \in 1 .. n |-> initial_backoff * 2 ^ (i - 1)]

\* the i-th attempt is being retried: its sleep is the very next step, or
\* the sleep is over and the next transport call is the very next step, or
\* both have happened
RetriedAfter(i) ==
    \/ i = Len(trace) /\ pc = "sleep" /\ Len(sleeps) = i - 1
    \/ i = Len(trace) /\ pc = "attempt" /\ Len(sleeps) = i
    \/ i < Len(trace) /\ Len(sleeps) >= i

\* the i-th attempt ended the call: no transport call and no sleep after it
EndedAt(i) == Done /\ i = Len(trace) /\ Len(sleeps) = i - 1

(***************************************************************************)
(* C1: for every identifier that is empty or whitespace only, the call     *)
(* fails with ValueError and makes no transport call and no sleep,         *)
(* whatever max_retries is.                                                *)
(***************************************************************************)
C1_BlankIdRaisesValueError ==
    (BlankId(user_id) /\ pc # "start") =>
        /\ RaisedType("ValueError")
        /\ trace = <<>>
        /\ sleeps = <<>>

C1_Witness ==
    /\ user_id = Str(<<"\t", " ">>)
    /\ max_retries = 2
    /\ RaisedType("ValueError")

(***************************************************************************)
(* C2: when the first response is a 2xx whose body decodes to a JSON       *)
(* object, the call returns exactly that object after exactly one          *)
(* transport call and no sleep.                                            *)
(***************************************************************************)
C2_FirstSuccessReturnsObject ==
    (trace # <<>> /\ Is2xx(trace[1]) /\ IsObjectBody(trace[1])) =>
        /\ Returned
        /\ result = JsonValue(trace[1].body)
        /\ Len(trace) = 1
        /\ sleeps = <<>>

C2_Witness ==
    /\ Returned
    /\ trace = <<Response(200, "{\"id\":\"42\",\"name\":\"Ada\"}")>>
    /\ result = [type |-> "dict", repr |-> "id=42,name=Ada"]
    /\ safe_user_id = <<"4", " ", "2">>

(***************************************************************************)
(* C3: when the transport answers a transient status on the first          *)
(* max_retries calls and then a 2xx with a JSON object, the call succeeds  *)
(* after exactly max_retries+1 transport calls and the sleeps are exactly  *)
(* initial_backoff, 2*initial_backoff, 4*initial_backoff, ... in order.    *)
(***************************************************************************)
C3_Scenario ==
    \A i \in 1 .. Len(trace) :
        IF i =< max_retries
        THEN IsTransientResponse(trace[i])
        ELSE i = max_retries + 1 /\ Is2xx(trace[i]) /\ IsObjectBody(trace[i])

C4_AlwaysTransientExhausts ==
    (/\ max_retries >= 0
     /\ Done
     /\ trace # <<>>
     /\ \A i \in 1 .. Len(trace) : IsTransientResponse(trace[i])) =>
        /\ RaisedType("TransientAPIError")
        /\ Len(trace) = max_retries + 1

C4_Witness ==
    /\ RaisedType("TransientAPIError")
    /\ max_retries = 2
    /\ trace = <<Response(503, ""), Response(429, ""), Response(500, "")>>

(***************************************************************************)
(* C5: a non-2xx status outside the transient set makes the call raise     *)
(* PermanentAPIError at once: no transport call and no sleep follows that  *)
(* attempt; on the first attempt that is one transport call and no sleep.  *)
(***************************************************************************)
C5_PermanentStatusFailsFast ==
    \A i \in 1 .. Len(trace) :
        IsPermanentResponse(trace[i]) =>
            /\ RaisedType("PermanentAPIError")
            /\ EndedAt(i)
            /\ (i = 1 => Len(trace) = 1 /\ sleeps = <<>>)

C5_Witness ==
    /\ RaisedType("PermanentAPIError")
    /\ max_retries = 2
    /\ trace = <<Response(404, "")>>
    /\ sleeps = <<>>

(***************************************************************************)
(* C6: a 2xx response whose body is not JSON, or is JSON but not an        *)
(* object, makes the call raise PermanentAPIError at once, with no sleep   *)
(* and no further transport call, even when retries remain.                *)
(***************************************************************************)
C6_BadBodyFailsFast ==
    \A i \in 1 .. Len(trace) :
        (Is2xx(trace[i]) /\ ~IsObjectBody(trace[i])) =>
            /\ RaisedType("PermanentAPIError")
            /\ EndedAt(i)

C6_Witness ==
    /\ RaisedType("PermanentAPIError")
    /\ max_retries = 2
    /\ Len(trace) = 2
    /\ IsTransientResponse(trace[1])
    /\ trace[2] = Response(200, "[1,2]")
    /\ Len(sleeps) = 1

(***************************************************************************)
(* C7: every call ends in exactly one of four outcomes: it returns a       *)
(* parsed JSON object, or it raises ValueError, PermanentAPIError or       *)
(* TransientAPIError; nothing else escapes and no non-object value is      *)
(* returned, whatever the transport answers.                               *)
(***************************************************************************)
C7_FourOutcomes ==
    /\ Done =>
        \/ /\ exc.type = "none"
           /\ result.type = "dict"
           /\ trace # <<>>
           /\ result = JsonValue(Last.body)
        \/ /\ exc.type \in {"ValueError", "PermanentAPIError",
                            "TransientAPIError"}
           /\ result = NoData
           /\ exc.type = "ValueError" => trace = <<>>
    /\ ~Done => exc.type = "none" /\ result = NoData

C7_Witness ==
    /\ Returned
    /\ Len(trace) = 3
    /\ trace[1].kind = "Timeout"
    /\ trace[2].kind = "RequestException"
    /\ result.type = "dict"

(***************************************************************************)
(* C8: for every max_retries and every sequence of transport answers the   *)
(* loop stops after finitely many steps, given that each transport call    *)
(* and each sleep returns.                                                 *)
(***************************************************************************)
C8_Terminates == <>Done

C8_Witness ==
    /\ RaisedType("TransientAPIError")
    /\ max_retries = 2
    /\ Len(trace) = 3
    /\ trace[1].kind = "ConnectionError"
    /\ trace[2].kind = "HTTPError"
    /\ trace[3].kind = "response"

(***************************************************************************)
(* C9: a connection failure, a timeout or any other request-level error    *)
(* of the transport is always transient: on attempt i =< max_retries the   *)
(* call sleeps and retries, on attempt i > max_retries it raises           *)
(* TransientAPIError with the error as its cause; it never raises          *)
(* PermanentAPIError for it.                                               *)
(***************************************************************************)
C9_NetworkErrorTransient ==
    \A i \in 1 .. Len(trace) :
        IsNetworkError(trace[i]) =>
            IF i =< max_retries
            THEN RetriedAfter(i)
            ELSE /\ EndedAt(i)
                 /\ RaisedType("TransientAPIError")
                 /\ exc.cause = trace[i].kind

C9_Witness ==
    /\ RaisedType("TransientAPIError")
    /\ max_retries = 1
    /\ Len(trace) = 2
    /\ trace[1].kind = "Timeout"
    /\ trace[2].kind = "RequestException"
    /\ exc.cause = "RequestException"
    /\ Len(sleeps) = 1

(***************************************************************************)
(* C10: a non-2xx response is retried only if its status is in {408, 429,  *)
(* 500, 502, 503, 504}, and then it is retried while attempts remain and   *)
(* ends in TransientAPIError when none do; every other non-2xx status      *)
(* (1xx, 3xx, 501, other 4xx/5xx) is permanent and never retried.          *)
(***************************************************************************)
C10_RetriedIffTransientStatus ==
    \A i \in 1 .. Len(trace) :
        (trace[i].kind = "response" /\ ~Is2xx(trace[i])) =>
            IF trace[i].status \in {408, 429, 500, 502, 503, 504}
            THEN IF i =< max_retries
                 THEN RetriedAfter(i)
                 ELSE EndedAt(i) /\ RaisedType("TransientAPIError")
            ELSE EndedAt(i) /\ RaisedType("PermanentAPIError")

C10_Witness ==
    /\ RaisedType("PermanentAPIError")
    /\ Len(trace) = 2
    /\ trace[1] = Response(408, "")
    /\ trace[2] = Response(501, "")
    /\ Len(sleeps) = 1

(***************************************************************************)
(* C11: the call honours an external cancellation or overall deadline      *)
(* spanning all attempts: once cancellation is requested (during a backoff *)
(* sleep or between attempts) the call issues no further transport call    *)
(* and completes no further sleep.                                         *)
(***************************************************************************)
C11_HonoursCancellation ==
    [][cancel_requested => (trace' = trace /\ sleeps' = sleeps)]_vars

(***************************************************************************)
(* Two calls side by side.  Every variable of fetch_user_details is a      *)
(* local of the call (lines 58-62, 65, 76, 82, 201, 212); the only         *)
(* module-level object the calls share is logger (line 14), which the      *)
(* function writes records to and never reads.  A call is a record of its  *)
(* arguments, locals and effects; the steps below are the code's steps on  *)
(* such a record.                                                          *)
(***************************************************************************)
NewCall(u, retries, b) ==
    [user_id |-> u, max_retries |-> retries, initial_backoff |-> b,
     pc |-> "start", safe_user_id |-> <<>>, url |-> <<>>, attempt |-> 0,
     backoff |-> 0, result |-> NoData, exc |-> NoExc, trace |-> <<>>,
     sleeps |-> <<>>]

\* lines 54-62
StepValidate(c) ==
    IF ~IsValidUserId(c.user_id)
    THEN [c EXCEPT !.exc = Exc("ValueError",
                               "user_id must be a non-empty string",
                               FALSE, 0, "none"),
                   !.pc = "done"]
    ELSE [c EXCEPT !.safe_user_id = SafeUserId(c.user_id),
                   !.url = BuildUrl(base_url, SafeUserId(c.user_id)),
                   !.attempt = 0,
                   !.backoff = c.initial_backoff,
                   !.pc = "attempt"]

\* lines 66-198: the try statement's dispatch on what requests.get did
Handle(o, att, retries) ==
    CASE o.kind = "response" -> HandleResponse(o, att, retries)
      [] o.kind \in {"ConnectionError", "Timeout"} ->
             HandleNetworkError(o, att, retries)
      [] o.kind = "HTTPError" -> HandleHTTPError(o, att, retries)
      [] OTHER -> HandleRequestException(o, att, retries)

\* lines 64-198
StepPass(c, o) ==
    LET att == NextAttempt(c.attempt)
        d == Handle(o, att, c.max_retries)
    IN  [c EXCEPT !.attempt = att,
                  !.trace = Append(@, o),
                  !.pc = IF d.next = "retry" THEN "sleep" ELSE "done",
                  !.result = d.data,
                  !.exc = d.exc]

\* lines 200-212, b being the backoff the call reads
StepSleep(c, b) ==
    [c EXCEPT !.sleeps = Append(@, b),
              !.backoff = NextBackoff(b),
              !.pc = "attempt"]

\* log records written per step: lines 67 and one of 84, 96, 108, 121, 134,
\* 147, 163, 175, 188 in a pass; line 202 before a sleep
RecordsPerPass == 2
RecordsPerSleep == 1

CallIds == {1, 2}

\* the transport's answers in the two-call study
ConcOutcomes ==
    { Response(200, "{}"), Response(503, ""), Response(404, ""),
      Raised("Timeout") }

\* line 62, 201: backoff is a local of the call that reads it
BackoffOfFirstCall(i) == conc.calls[1].backoff
BackoffOf(i) == conc.calls[i].backoff

ConcInit ==
    /\ \E r \in 0 .. MaxRetries, b \in BackoffValues :
           conc = [calls |-> <<NewCall(Str(<<"4", "2">>), MaxRetries,
                                       MaxInitialBackoff),
                               NewCall(Str(<<" ", "4", " ", "2", "\t">>),
                                       r, b)>>,
                   logged |-> 0]
    /\ user_id = NonStr
    /\ max_retries = 0
    /\ initial_backoff = 0
    /\ pc = "done"
    /\ safe_user_id = <<>>
    /\ url = <<>>
    /\ attempt = 0
    /\ backoff = 0
    /\ result = NoData
    /\ exc = NoExc
    /\ trace = <<>>
    /\ sleeps = <<>>
    /\ cancel_requested = FALSE

single == <<user_id, max_retries, initial_backoff, pc, safe_user_id, url,
            attempt, backoff, result, exc, trace, sleeps, cancel_requested>>

ConcValidate(i) ==
    /\ conc.calls[i].pc = "start"
    /\ conc' = [conc EXCEPT !.calls[i] = StepValidate(@)]
    /\ UNCHANGED single

ConcAttempt(i) ==
    /\ conc.calls[i].pc = "attempt"
    /\ Len(conc.calls[i].trace) < MaxAttempts
    /\ \E o \in ConcOutcomes :
           conc' = [conc EXCEPT !.calls[i] = StepPass(@, o),
                                !.logged = @ + RecordsPerPass]
    /\ UNCHANGED single

ConcSleep(i) ==
    /\ conc.calls[i].pc = "sleep"
    /\ conc' = [conc EXCEPT !.calls[i] = StepSleep(@, BackoffOf(i)),
                            !.logged = @ + RecordsPerSleep]
    /\ UNCHANGED single

ConcNext ==
    \E i \in CallIds :
        \/ ConcValidate(i)
        \/ ConcAttempt(i)
        \/ ConcSleep(i)

ConcSpec == ConcInit /\ [][ConcNext]_vars

\* the call (u, retries, b) run alone against the transport answers tr
RECURSIVE SoloRun(_, _)
SoloRun(c, tr) ==
    IF tr = <<>>
    THEN c
    ELSE LET ready == IF c.pc = "sleep" THEN StepSleep(c, c.backoff) ELSE c
         IN  SoloRun(StepPass(ready, Head(tr)), Tail(tr))

Solo(u, retries, b, tr) == SoloRun(StepValidate(NewCall(u, retries, b)), tr)

\* c is a state of the solo run of its own arguments against its own trace
IsSoloState(c) ==
    LET s == Solo(c.user_id, c.max_retries, c.initial_backoff, c.trace)
    IN  \/ c.pc = "start" /\ c = NewCall(c.user_id, c.max_retries,
                                         c.initial_backoff)
        \/ c.pc # "start" /\ c = s
        \/ c.pc # "start" /\ s.pc = "sleep" /\ c = StepSleep(s, s.backoff)

\* the one call of Spec as a record
ThisCall ==
    [user_id |-> user_id, max_retries |-> max_retries,
     initial_backoff |-> initial_backoff, pc |-> pc,
     safe_user_id |-> safe_user_id, url |-> url, attempt |-> attempt,
     backoff |-> backoff, result |-> result, exc |-> exc, trace |-> trace,
     sleeps |-> sleeps]

\* the steps on records and the actions of Spec are the same code
StepsAgree == IsSoloState(ThisCall)

(***************************************************************************)
(* C12: two calls running concurrently for different identifiers are       *)
(* independent: under every interleaving of their transport calls and      *)
(* sleeps each call's attempt counter, backoff sequence, number of         *)
(* transport calls and outcome are those of the same call run alone        *)
(* against the same sequence of transport answers.                         *)
(***************************************************************************)
C12_ConcurrentCallsIndependent ==
    /\ conc.calls[1].user_id # conc.calls[2].user_id
    /\ \A i \in CallIds : IsSoloState(conc.calls[i])

C12_Witness ==
    /\ conc.calls[1].pc = "done"
    /\ conc.calls[1].exc.type = "TransientAPIError"
    /\ conc.calls[1].sleeps = <<1, 2>>
    /\ conc.calls[2].pc = "done"
    /\ conc.calls[2].exc.type = "none"
    /\ conc.calls[2].max_retries = 1
    /\ conc.calls[2].sleeps = <<0>>
    /\ conc.logged = 13

(***************************************************************************)
(* Further vocabulary: outcomes the code treats as transient, and what an  *)
(* exception tells its catcher.                                            *)
(***************************************************************************)
\* a transient status, a network error, or an HTTPError with such a status
IsTransientOutcome(o) ==
    \/ IsTransientResponse(o)
    \/ IsNetworkError(o)
    \/ /\ o.kind = "HTTPError"
       /\ o.has_status
       /\ o.status \in {408, 429, 500, 502, 503, 504}

\* the exception carries status code s: formatted into its message, or held
\* by its cause (an HTTPError's response; the cause is the last answer)
CarriesStatus(s) ==
    \/ exc.text = "Permanent HTTP error: {status_code}" /\ exc.has_num
                                                        /\ exc.num = s
    \/ exc.cause = "HTTPError" /\ Last.has_status /\ Last.status = s

\* the exception carries the count n of retries: formatted into its message
CarriesRetries(n) ==
    /\ exc.text \in {"Transient HTTP error after {max_retries} retries",
                     "Network error after {max_retries} retries",
                     "Request error after {max_retries} retries"}
    /\ exc.has_num
    /\ exc.num = n

\* the exception carries the attempt count n: no message formats attempt
\* itself, but a count of retries exhausted tells it (n - 1 retries)
CarriesAttempt(n) == CarriesRetries(n - 1)

(***************************************************************************)
(* C13: at the n-th transport call attempt is n and the backoff is         *)
(* initial_backoff * 2^(n-1); each retry adds exactly 1 to attempt and     *)
(* exactly doubles the backoff, with no upper cap.                         *)
(***************************************************************************)
C13_RetryState ==
    /\ pc = "attempt" =>
           /\ attempt = Len(trace)
           /\ Len(sleeps) = Len(trace)
           /\ backoff = initial_backoff * 2 ^ Len(trace)
    /\ (pc \in {"sleep", "done"} /\ trace # <<>>) =>
           /\ attempt = Len(trace)
           /\ backoff = initial_backoff * 2 ^ (Len(trace) - 1)
    /\ sleeps = Doubling(Len(sleeps))

C13_Witness ==
    /\ pc = "sleep"
    /\ initial_backoff = 1
    /\ attempt = 2
    /\ backoff = 2
    /\ sleeps = <<1>>

(***************************************************************************)
(* C14: with max_retries = 0 the call makes exactly one transport call and *)
(* no sleep whatever the transport answers: it returns the object on a 2xx *)
(* JSON object, raises PermanentAPIError on a permanent outcome and        *)
(* TransientAPIError on a transient status or network error.               *)
(***************************************************************************)
C14_NoRetryVariant ==
    (max_retries = 0 /\ trace # <<>>) =>
        /\ Done
        /\ Len(trace) = 1
        /\ sleeps = <<>>
        /\ IF Is2xx(trace[1]) /\ IsObjectBody(trace[1])
           THEN exc.type = "none" /\ result = JsonValue(trace[1].body)
           ELSE IF IsTransientOutcome(trace[1])
           THEN exc.type = "TransientAPIError"
           ELSE exc.type = "PermanentAPIError"

C14_Witness ==
    /\ max_retries = 0
    /\ RaisedType("TransientAPIError")
    /\ trace = <<Raised("ConnectionError")>>
    /\ sleeps = <<>>

(***************************************************************************)
(* C15, as claimed: whenever PermanentAPIError is raised the call has      *)
(* performed no sleep and exactly one transport call, also when transient  *)
(* outcomes precede the permanent one.                                     *)
(***************************************************************************)
C15_PermanentAfterOneCall ==
    RaisedType("PermanentAPIError") => sleeps = <<>> /\ Len(trace) = 1

(***************************************************************************)
(* C15, amended: whenever PermanentAPIError is raised the attempt that     *)
(* met the permanent outcome is not retried: it is the last transport      *)
(* call, every earlier attempt met a transient outcome and was followed by *)
(* one sleep, and no sleep follows; only when it is the first attempt has  *)
(* the call made one transport call and no sleep.                          *)
(***************************************************************************)
C15_PermanentNotRetried ==
    RaisedType("PermanentAPIError") =>
        /\ trace # <<>>
        /\ ~IsTransientOutcome(Last)
        /\ \A i \in 1 .. Len(trace) - 1 : IsTransientOutcome(trace[i])
        /\ Len(sleeps) = Len(trace) - 1
        /\ sleeps = <<>> <=> Len(trace) = 1

C15_Witness ==
    /\ RaisedType("PermanentAPIError")
    /\ Len(trace) = 2
    /\ trace[1].kind = "Timeout"
    /\ trace[2] = Response(200, "<html>")
    /\ Len(sleeps) = 1

(***************************************************************************)
(* C16: whenever TransientAPIError is raised the error carries the         *)
(* classification of the last attempt (a network error, or the specific    *)
(* transient status code seen) and the number of retries exhausted, which  *)
(* equals the number of sleeps performed.                                  *)
(***************************************************************************)
C16_TransientErrorContext ==
    (RaisedType("TransientAPIError") /\ max_retries >= 0) =>
        /\ IsNetworkError(Last) => exc.cause = Last.kind
        /\ Last.has_status => CarriesStatus(Last.status)
        /\ CarriesRetries(Len(sleeps))

(***************************************************************************)
(* C17: every PermanentAPIError or TransientAPIError carries the status    *)
(* code of the failing attempt whenever one was received, the attempt      *)
(* count at which it failed, and the underlying cause when there is one.   *)
(***************************************************************************)
C17_FailureContext ==
    (/\ Done
     /\ exc.type \in {"PermanentAPIError", "TransientAPIError"}
     /\ max_retries >= 0) =>
        /\ Last.has_status => CarriesStatus(Last.status)
        /\ CarriesAttempt(attempt)
        /\ Last.kind # "response" => exc.cause = Last.kind
        /\ (Is2xx(Last) /\ ~JsonParses(Last.body)) => exc.cause = "ValueError"

(***************************************************************************)
(* C18: transport calls and sleeps alternate, one attempt at a time: a     *)
(* sleep happens only directly after an attempt classified transient with  *)
(* attempt =< max_retries, every sleep is followed by one further          *)
(* transport call, no sleep follows the final attempt, and at every end    *)
(* other than ValueError the sleeps number the transport calls minus 1.    *)
(***************************************************************************)
C18_CallsAndSleepsAlternate ==
    /\ pc = "start" => trace = <<>> /\ sleeps = <<>>
    /\ pc = "attempt" => Len(sleeps) = Len(trace)
    /\ pc = "sleep" => Len(sleeps) = Len(trace) - 1
    /\ (Done /\ exc.type # "ValueError") => Len(sleeps) = Len(trace) - 1
    /\ (Done /\ exc.type = "ValueError") => trace = <<>> /\ sleeps = <<>>
    /\ \A i \in 1 .. Len(trace) :
           (i =< Len(sleeps) \/ (i = Len(trace) /\ pc = "sleep")) =>
               IsTransientOutcome(trace[i]) /\ i =< max_retries

C18_Witness ==
    /\ pc = "attempt"
    /\ max_retries = 2
    /\ Len(trace) = 2
    /\ Len(sleeps) = 2
    /\ trace[1].kind = "RequestException"
    /\ trace[2] = RaisedHTTP(503)

(***************************************************************************)
(* C19: the retry budget is shared by all kinds of transient failure: for  *)
(* every max_retries >= 0 and every mix of transient statuses, connection  *)
(* failures, timeouts and other request errors, the transport calls never  *)
(* exceed max_retries+1 and the sleeps never exceed max_retries.           *)
(***************************************************************************)
C19_SharedRetryBudget ==
    max_retries >= 0 =>
        /\ Len(trace) =< max_retries + 1
        /\ attempt =< max_retries + 1
        /\ Len(sleeps) =< max_retries

C19_Witness ==
    /\ RaisedType("TransientAPIError")
    /\ max_retries = 2
    /\ Len(trace) = 3
    /\ Len(sleeps) = 2
    /\ trace[1] = Response(429, "")
    /\ trace[2].kind = "Timeout"
    /\ trace[3].kind = "RequestException"

====
